---- MODULE Spec2Model ----
(***************************************************************************)
(* Model of adafruit_led_animation/tilegrid.py: the grid mapper            *)
(* generate_grid (single_tile_coord, multi_tile) and the TileGrid adapter  *)
(* that wraps every entry of the mapper's result in a PixelMap over one    *)
(* strip.  Python tuples and lists are sequences; a 0-based Python index k *)
(* is position k+1 of the sequence.                                        *)
(***************************************************************************)
EXTENDS Integers, Sequences, FiniteSets, TLC

VARIABLES
    gpc,          \* direct call of generate_grid: "call" before, "returned" after
    gargs,        \* its arguments <<width, height, tile_num>>
    gresult,      \* its return value
    pc,           \* TileGrid: "new" before __init__, "ready" after
    self_width,   \* self.width
    self_height,  \* self.height
    self_tile_num,\* self.tile_num
    self_x,       \* self._x: one index tuple per PixelMap
    self_n,       \* self.n
    mapper_called,\* whether __init__ invoked generate_grid
    auto_write,   \* strip.auto_write
    pixels,       \* strip pixel buffer
    shown,        \* frame last flushed to the hardware
    op,           \* last TileGrid operation
    arg,          \* its argument
    ret,          \* <<k>> when it returned self._x[k], <<>> otherwise
    err,          \* exception it raised, "none" otherwise
    trace,        \* calls it made on sub-maps and strip, in order
    ops           \* operations performed since construction

vars == <<gpc, gargs, gresult, pc, self_width, self_height, self_tile_num,
          self_x, self_n, mapper_called, auto_write, pixels, shown, op, arg,
          ret, err, trace, ops>>

gridVars == <<gpc, gargs, gresult>>
tileVars == <<pc, self_width, self_height, self_tile_num, self_x, self_n,
              mapper_called, auto_write, pixels, shown, op, arg, ret, err,
              trace, ops>>

\* ---- bounds --------------------------------------------------------------
MaxWidth == 4
MaxHeight == 3
MaxTiles == 3
\* grids that operations are run on, and operations per grid
MaxOpWidth == 2
MaxOpHeight == 2
MaxOpTiles == 3
MaxOps == 1

MinArg == 0 - 1
Widths == MinArg..MaxWidth
Heights == MinArg..MaxHeight
TileNums == MinArg..MaxTiles
OpWidths == MinArg..MaxOpWidth
OpHeights == MinArg..MaxOpHeight
OpTileNums == MinArg..MaxOpTiles
Colors == {1}
NumPixels == MaxWidth * MaxHeight * MaxTiles
Blank == [i \in 0..(NumPixels - 1) |-> 0]

\* ---- Python integer and sequence primitives --------------------------------
\* a // b (floor division), b # 0
PyFloorDiv(a, b) ==
    IF b > 0
    THEN (IF a >= 0 THEN a \div b ELSE 0 - (((0 - a) + b - 1) \div b))
    ELSE (IF a <= 0 THEN (0 - a) \div (0 - b)
                    ELSE 0 - ((a + (0 - b) - 1) \div (0 - b)))

\* a % b (result has the sign of b), b # 0
PyMod(a, b) == a - b * PyFloorDiv(a, b)

\* tup[:k]
PyPrefix(tup, k) ==
    LET stop == IF k >= 0 THEN (IF k < Len(tup) THEN k ELSE Len(tup))
                          ELSE (IF Len(tup) + k > 0 THEN Len(tup) + k ELSE 0)
    IN  SubSeq(tup, 1, stop)

\* ---- generate_grid ---------------------------------------------------------
TileNumberMutOffByOne(group_index, number_within_group, height) ==
    IF PyMod(group_index, 2) = 0
    THEN group_index * height + number_within_group
    ELSE (group_index + 1) * height - number_within_group

TileNumberMutNoReverse(group_index, number_within_group, height) ==
    group_index * height + number_within_group

\* the value of `number` for one i of single_tile_coord's loop
TileNumber(group_index, number_within_group, height) ==
    IF PyMod(group_index, 2) = 0
    THEN group_index * height + number_within_group
    ELSE (group_index + 1) * height - 1 - number_within_group

RECURSIVE SingleTileLoop(_, _, _, _, _)
SingleTileLoop(i, width, height, single_tile, temp) ==
    IF i >= width * height
    THEN single_tile
    ELSE LET group_index == PyFloorDiv(i, height)
             number_within_group == PyMod(i, height)
             number == TileNumber(group_index, number_within_group, height)
             temp1 == IF number_within_group = 0 THEN << >> ELSE temp
             temp2 == Append(temp1, number)
             single1 == IF number_within_group = height - 1
                        THEN Append(single_tile, temp2)
                        ELSE single_tile
         IN  SingleTileLoop(i + 1, width, height, single1, temp2)

single_tile_coord(width, height) ==
    SingleTileLoop(0, width, height, << >>, << >>)

BlockOffsetMutPerPass(n, factor, width, height) == (n + 1) * (width * height)

BlockOffsetMutFactor(n, factor, width, height) == (factor + 1) * (width * height)

\* the offset added to the block appended in pass n of multi_tile
BlockOffset(n, factor, width, height) == factor * (width * height)

ShiftedBlock(tup, n, factor, width, height) ==
    LET head == PyPrefix(tup, height)
    IN  [k \in 1..Len(head) |-> head[k] + BlockOffset(n, factor, width, height)]

RECURSIVE ReplicateLoopMutAppendLast(_, _, _, _, _, _, _)
ReplicateLoopMutAppendLast(n, factor, width, height, tup, modified_tuple, multi_temp) ==
    IF n >= factor
    THEN Append(multi_temp, modified_tuple)
    ELSE ReplicateLoopMutAppendLast(n + 1, factor, width, height, tup,
             modified_tuple \o ShiftedBlock(tup, n, factor, width, height),
             multi_temp)

\* for n in range(factor): extend modified_tuple, append it to multi_temp
RECURSIVE ReplicateLoop(_, _, _, _, _, _, _)
ReplicateLoop(n, factor, width, height, tup, modified_tuple, multi_temp) ==
    IF n >= factor
    THEN multi_temp
    ELSE LET modified1 == modified_tuple \o ShiftedBlock(tup, n, factor, width, height)
         IN  ReplicateLoop(n + 1, factor, width, height, tup, modified1,
                           Append(multi_temp, modified1))

\* for tup in original_matrix
RECURSIVE TupLoop(_, _, _, _, _, _)
TupLoop(k, original_matrix, factor, width, height, multi_temp) ==
    IF k > Len(original_matrix)
    THEN multi_temp
    ELSE LET tup == original_matrix[k]
         IN  TupLoop(k + 1, original_matrix, factor, width, height,
                     ReplicateLoop(0, factor, width, height, tup,
                                   PyPrefix(tup, height), multi_temp))

multi_tile(original_matrix, width, height, tile_num) ==
    LET factor == tile_num - 1
    IN  IF factor = 0
        THEN original_matrix
        ELSE TupLoop(1, original_matrix, factor, width, height, << >>)

generate_grid(width, height, tile_num) ==
    multi_tile(single_tile_coord(width, height), width, height, tile_num)

\* ---- direct use of the grid mapper ------------------------------------------
InitTile ==
    /\ pc = "new"
    /\ self_width = 0
    /\ self_height = 0
    /\ self_tile_num = 0
    /\ self_x = << >>
    /\ self_n = 0
    /\ mapper_called = FALSE
    /\ auto_write \in BOOLEAN
    /\ pixels = Blank
    /\ shown = Blank
    /\ op = "none"
    /\ arg = << >>
    /\ ret = << >>
    /\ err = "none"
    /\ trace = << >>
    /\ ops = 0

InitGrid ==
    /\ gpc = "call"
    /\ gargs \in Widths \X Heights \X TileNums
    /\ gresult = << >>
    /\ InitTile
    /\ auto_write = FALSE

CallGenerateGrid ==
    /\ gpc = "call"
    /\ gpc' = "returned"
    /\ gresult' = generate_grid(gargs[1], gargs[2], gargs[3])
    /\ UNCHANGED <<gargs, tileVars>>

NextGrid == CallGenerateGrid

SpecGrid == InitGrid /\ [][NextGrid]_vars

\* ---- strip collaborator and PixelMap (helper.py) ---------------------------
\* strip[idx] = val
StripWrite(px, idx, val) == [px EXCEPT ![idx] = val]

\* the frame on the hardware after an operation that wrote to the strip:
\* a strip with auto_write flushes on every write
StripFlushed(px, old_shown, aw) == IF aw THEN px ELSE old_shown

\* PixelMap(strip, m, individual_pixels=True): position b is strip index m[b]
PixelMapLen(m) == Len(m)
PixelMapIndex(m, b) == m[b + 1]

\* PixelMap.fill(color): writes color at every position of the map
PixelMapFill(px, m, color) ==
    [i \in DOMAIN px |->
        IF \E b \in 0..(PixelMapLen(m) - 1) : PixelMapIndex(m, b) = i
        THEN color
        ELSE px[i]]

PixelMapFillTrace(m, color) ==
    [b \in 1..PixelMapLen(m) |-> <<"setpixel", PixelMapIndex(m, b - 1), color>>]

\* ---- TileGrid ---------------------------------------------------------------
UsesMapperMutSingle(tile_num) == tile_num >= 1

\* __init__: the tile_num test that guards the call of generate_grid
UsesMapper(tile_num) == tile_num > 1

\* __len__
TileGridLen == self_n

GetOutOfRangeMutInclusive(index, n) == index > n \/ index < 0

\* __getitem__: index += len(self) for a negative index
GetNormalize(index, n) == IF index < 0 THEN index + n ELSE index

\* __getitem__: the range test on the normalised index
GetOutOfRange(index, n) == index >= n \/ index < 0

ShowAfterSetMutAlways(aw) == TRUE

\* __setitem__: the auto_write test after the write
ShowAfterSet(aw) == aw

Init ==
    /\ gpc = "call"
    /\ gargs = <<1, 1, 1>>
    /\ gresult = << >>
    /\ InitTile

Construct(strip_auto_write, width, height, tile_num) ==
    /\ pc = "new"
    /\ auto_write = strip_auto_write
    /\ pc' = "ready"
    /\ self_height' = height
    /\ self_width' = width
    /\ self_tile_num' = tile_num
    /\ mapper_called' = UsesMapper(tile_num)
    /\ self_x' = IF UsesMapper(tile_num)
                 THEN generate_grid(width, height, tile_num)
                 ELSE << >>
    /\ self_n' = Len(self_x')
    /\ op' = "init"
    /\ arg' = <<width, height, tile_num>>
    /\ ret' = << >>
    /\ err' = "none"
    /\ trace' = << >>
    /\ UNCHANGED <<auto_write, pixels, shown, ops, gridVars>>

Ready == pc = "ready" /\ ops < MaxOps

Frame ==
    /\ ops' = ops + 1
    /\ UNCHANGED <<pc, self_width, self_height, self_tile_num, self_x, self_n,
                   mapper_called, gridVars>>

GetItemSlice ==
    /\ Ready
    /\ op' = "get"
    /\ arg' = <<"slice">>
    /\ err' = "NotImplementedError"
    /\ ret' = << >>
    /\ trace' = << >>
    /\ UNCHANGED <<auto_write, pixels, shown>>
    /\ Frame

GetItem(index) ==
    /\ Ready
    /\ op' = "get"
    /\ arg' = <<"int", index>>
    /\ LET idx == GetNormalize(index, TileGridLen)
       IN  IF GetOutOfRange(idx, self_n)
           THEN err' = "IndexError" /\ ret' = << >>
           ELSE err' = "none" /\ ret' = <<idx>>
    /\ trace' = << >>
    /\ UNCHANGED <<auto_write, pixels, shown>>
    /\ Frame

SetItemSlice(val) ==
    /\ Ready
    /\ op' = "set"
    /\ arg' = <<"slice", val>>
    /\ err' = "NotImplementedError"
    /\ ret' = << >>
    /\ trace' = << >>
    /\ UNCHANGED <<auto_write, pixels, shown>>
    /\ Frame

SetItemFlat(index, val) ==
    /\ Ready
    /\ op' = "set"
    /\ arg' = <<"int", index, val>>
    /\ err' = "ValueError"
    /\ ret' = << >>
    /\ trace' = << >>
    /\ UNCHANGED <<auto_write, pixels, shown>>
    /\ Frame

\* index is the tuple (a, b): self._x[a][b] = val, then show() under auto_write
SetItemTuple(a, b, val) ==
    /\ Ready
    /\ op' = "set"
    /\ arg' = <<"tuple", a, b, val>>
    /\ ret' = << >>
    /\ IF a >= self_n \/ a < 0 - self_n
       THEN /\ err' = "IndexError"
            /\ trace' = << >>
            /\ UNCHANGED <<pixels, shown>>
       ELSE LET m == self_x[(IF a < 0 THEN a + self_n ELSE a) + 1]
            IN  IF b >= PixelMapLen(m) \/ b < 0
                THEN /\ err' = "IndexError"
                     /\ trace' = << >>
                     /\ UNCHANGED <<pixels, shown>>
                ELSE /\ err' = "none"
                     /\ trace' = <<<<"setpixel", PixelMapIndex(m, b), val>>>>
                                 \o (IF ShowAfterSet(auto_write)
                                     THEN <<<<"show">>>>
                                     ELSE << >>)
                     /\ pixels' = StripWrite(pixels, PixelMapIndex(m, b), val)
                     /\ shown' = IF ShowAfterSet(auto_write)
                                 THEN pixels'
                                 ELSE StripFlushed(pixels', shown, auto_write)
    /\ UNCHANGED auto_write
    /\ Frame

\* for strip in self._x: strip.fill(color)
RECURSIVE FillLoop(_, _, _)
FillLoop(px, k, color) ==
    IF k > Len(self_x)
    THEN px
    ELSE FillLoop(PixelMapFill(px, self_x[k], color), k + 1, color)

RECURSIVE FillTrace(_, _)
FillTrace(k, color) ==
    IF k > Len(self_x)
    THEN << >>
    ELSE PixelMapFillTrace(self_x[k], color) \o FillTrace(k + 1, color)

Fill(color) ==
    /\ Ready
    /\ op' = "fill"
    /\ arg' = <<color>>
    /\ ret' = << >>
    /\ err' = "none"
    /\ trace' = FillTrace(1, color)
    /\ pixels' = FillLoop(pixels, 1, color)
    /\ shown' = IF trace' = << >>
                THEN shown
                ELSE StripFlushed(pixels', shown, auto_write)
    /\ UNCHANGED auto_write
    /\ Frame

Show ==
    /\ Ready
    /\ op' = "show"
    /\ arg' = << >>
    /\ ret' = << >>
    /\ err' = "none"
    /\ trace' = <<<<"show">>>>
    /\ shown' = pixels
    /\ UNCHANGED <<auto_write, pixels>>
    /\ Frame

SetAutoWrite(value) ==
    /\ Ready
    /\ op' = "auto_write"
    /\ arg' = <<value>>
    /\ ret' = << >>
    /\ err' = "none"
    /\ trace' = << >>
    /\ auto_write' = value
    /\ UNCHANGED <<pixels, shown>>
    /\ Frame

\* construction alone, over the full range of configurations
NextInit ==
    \E aw \in BOOLEAN, w \in Widths, h \in Heights, t \in TileNums :
        Construct(aw, w, h, t)

SpecInit == Init /\ [][NextInit]_vars

\* construction followed by operations
Next ==
    \/ \E aw \in BOOLEAN, w \in OpWidths, h \in OpHeights, t \in OpTileNums :
          Construct(aw, w, h, t)
    \/ GetItemSlice
    \/ \E i \in (0 - (self_n + 2))..(self_n + 1) : GetItem(i)
    \/ \E v \in Colors : SetItemSlice(v)
    \/ \E i \in 0..self_n, v \in Colors : SetItemFlat(i, v)
    \/ \E a \in (0 - (self_n + 1))..self_n, b \in 0..(MaxOpHeight * MaxOpTiles), v \in Colors :
          SetItemTuple(a, b, v)
    \/ \E c \in Colors : Fill(c)
    \/ Show
    \/ \E v \in BOOLEAN : SetAutoWrite(v)

Spec == Init /\ [][Next]_vars

\* ---- properties of the grid mapper (SpecGrid) ---------------------------------
\* serpentine index of position y in group x of one tile
SerpentineIndex(x, y, height) ==
    IF x % 2 = 0 THEN x * height + y ELSE (x + 1) * height - 1 - y

\* every (entry, position) pair of a mapping
Positions(g) ==
    UNION {{<<e, k>> : k \in 1..Len(g[e])} : e \in 1..Len(g)}

GridReturned(width, height, tile_num) ==
    gpc = "returned" /\ gargs = <<width, height, tile_num>>

GridValid == gpc = "returned" /\ gargs[1] >= 1 /\ gargs[2] >= 1 /\ gargs[3] >= 1

\* C3: for width, height, tile_num >= 1 the indices of generate_grid's result
\* are pairwise disjoint and cover exactly [0, tile_num*width*height).
C3_DisjointCover ==
    GridValid =>
        LET total == gargs[3] * gargs[1] * gargs[2]
        IN  /\ \A p, q \in Positions(gresult) :
                  p # q => gresult[p[1]][p[2]] # gresult[q[1]][q[2]]
            /\ {gresult[p[1]][p[2]] : p \in Positions(gresult)} = 0..(total - 1)

\* C4: with tile_num = 1 the flattened result is a permutation of
\* [0, width*height): width*height values, each in range, each exactly once.
C4_SingleTilePermutation ==
    (GridValid /\ gargs[3] = 1) =>
        LET total == gargs[1] * gargs[2]
        IN  /\ Cardinality(Positions(gresult)) = total
            /\ \A p \in Positions(gresult) :
                  gresult[p[1]][p[2]] \in 0..(total - 1)
            /\ \A v \in 0..(total - 1) :
                  Cardinality({p \in Positions(gresult) :
                                  gresult[p[1]][p[2]] = v}) = 1

C4_Witness ==
    /\ GridReturned(3, 2, 1)
    /\ gresult = <<<<0, 1>>, <<3, 2>>, <<4, 5>>>>

\* C5: with tile_num = 1 the result has width groups of height indices each,
\* group g ascending from g*height when g is even and descending from
\* (g+1)*height - 1 when g is odd.
C5_Serpentine ==
    (GridValid /\ gargs[3] = 1) =>
        /\ Len(gresult) = gargs[1]
        /\ \A g \in 0..(gargs[1] - 1) :
              /\ Len(gresult[g + 1]) = gargs[2]
              /\ \A y \in 0..(gargs[2] - 1) :
                    gresult[g + 1][y + 1] =
                        IF g % 2 = 0 THEN g * gargs[2] + y
                                     ELSE (g + 1) * gargs[2] - 1 - y

C5_Witness ==
    /\ GridReturned(2, 3, 1)
    /\ gresult = <<<<0, 1, 2>>, <<5, 4, 3>>>>

\* C10: with tile_num > 1 every entry is one single-tile group followed only by
\* height-sized copies of that group, each shifted by the one constant
\* (tile_num-1)*width*height; so every index lies in [0, width*height) or in
\* [(tile_num-1)*width*height, tile_num*width*height).
C10_ConstantOffset ==
    (GridValid /\ gargs[3] > 1) =>
        LET width == gargs[1]
            height == gargs[2]
            offset == (gargs[3] - 1) * width * height
        IN  \A e \in 1..Len(gresult) :
               LET m == gresult[e]
                   blocks == Len(m) \div height
               IN  /\ Len(m) = blocks * height
                   /\ blocks >= 1
                   /\ \E g \in 0..(width - 1) :
                         \A b \in 0..(blocks - 1), y \in 0..(height - 1) :
                            m[b * height + y + 1] =
                               SerpentineIndex(g, y, height)
                                  + (IF b = 0 THEN 0 ELSE offset)
                   /\ \A k \in 1..Len(m) :
                         \/ m[k] \in 0..(width * height - 1)
                         \/ m[k] \in offset..(offset + width * height - 1)

C10_Witness ==
    /\ GridReturned(2, 1, 3)
    /\ gresult = <<<<0, 4>>, <<0, 4, 4>>, <<1, 5>>, <<1, 5, 5>>>>

\* ---- properties of TileGrid construction (SpecInit) ---------------------------
Built(width, height, tile_num) ==
    /\ pc = "ready"
    /\ self_width = width
    /\ self_height = height
    /\ self_tile_num = tile_num

BuiltTiled ==
    pc = "ready" /\ self_tile_num > 1 /\ self_width >= 1 /\ self_height >= 1

C6_FailsFast ==
    (op = "init" /\ (arg[1] <= 0 \/ arg[2] <= 0 \/ arg[3] <= 0)) =>
        (err = "InvalidConfiguration" /\ pc # "ready")

\* ---- properties of TileGrid operations (Spec) ---------------------------------
C7_GetResult ==
    (op = "get" /\ arg[1] = "int") =>
        LET i == arg[2]
        IN  /\ (0 <= i /\ i < self_n) => (err = "none" /\ ret = <<i>>)
            /\ (0 - self_n <= i /\ i < 0) => (err = "none" /\ ret = <<i + self_n>>)
            /\ (i >= self_n \/ i < 0 - self_n) =>
                  (err = "IndexError" /\ ret = << >>)
            /\ trace = << >>

C7_GetStep ==
    op' = "get" =>
        /\ pixels' = pixels
        /\ shown' = shown
        /\ self_x' = self_x
        /\ self_n' = self_n

\* C7: get(i) returns sub-map i for 0 <= i < n, sub-map i+n for -n <= i < 0,
\* raises IndexError otherwise, and never changes the strip or the grid nor
\* calls show().
C7_GetItem == [](C7_GetResult) /\ [][C7_GetStep]_vars

C7_Witness ==
    /\ op = "get"
    /\ self_n >= 2
    /\ arg = <<"int", 0 - 1>>
    /\ ret = <<self_n - 1>>

C8_SetResult ==
    op = "set" =>
        /\ arg[1] = "slice" => (err = "NotImplementedError" /\ trace = << >>)
        /\ arg[1] = "int" => (err = "ValueError" /\ trace = << >>)
        /\ err = "none" =>
              /\ arg[1] = "tuple"
              /\ Len(trace) >= 1
              /\ trace[1][1] = "setpixel"
              /\ trace = <<trace[1]>> \o (IF auto_write THEN <<<<"show">>>> ELSE << >>)

C8_SetStep ==
    op' = "set" =>
        IF err' = "none"
        THEN /\ pixels' = [pixels EXCEPT ![trace'[1][2]] = trace'[1][3]]
             /\ auto_write => shown' = pixels'
        ELSE pixels' = pixels /\ shown' = shown

\* C8: a successful set with a (tile, coordinate) index writes the pixel and
\* then calls show() exactly when auto_write is true; a set that raises for a
\* slice or a flat index writes nothing and shows nothing.
C8_SetItem == [](C8_SetResult) /\ [][C8_SetStep]_vars

C8_Witness ==
    /\ op = "set"
    /\ err = "none"
    /\ auto_write
    /\ Len(trace) = 2
    /\ trace[2] = <<"show">>
    /\ pixels[trace[1][2]] = trace[1][3]

\* C9: with tile_num <= 1 the mapper is not invoked, there are no sub-maps,
\* len is 0, every get(i) raises IndexError and fill writes no pixel.
C9_NoTilesForSingle ==
    (pc = "ready" /\ self_tile_num <= 1) =>
        /\ ~mapper_called
        /\ self_x = << >>
        /\ TileGridLen = 0
        /\ (op = "get" /\ arg[1] = "int") => err = "IndexError"
        /\ op = "fill" => (trace = << >> /\ pixels = Blank)

C9_Witness ==
    /\ Built(2, 2, 1)
    /\ op = "fill"
    /\ pixels = Blank

====
